---- MODULE Spec2Model ----
(***************************************************************************)
(* Model of the scientific calculator: Calculator::eval and the pipeline   *)
(* behind it (tokenizer, shunting-yard builder, postfix evaluator, mode    *)
(* orchestrator) over the Polynomial value type.                           *)
(*                                                                         *)
(* Strings are sequences of one-character strings.  A value_type (double)  *)
(* is modelled as an exact rational <<numerator, denominator>> in lowest   *)
(* terms with a positive denominator; rounding is not modelled.            *)
(***************************************************************************)
EXTENDS Integers, Sequences, FiniteSets, TLC

VARIABLES expression, pc, remaining_expression, expect_operator, tokens,
          is_equation, token_index, buffer, output_queue,
          node_index, scalars_buffer, result, last_apply, oob_read, answer,
          first_answer

vars == <<expression, pc, remaining_expression, expect_operator, tokens,
          is_equation, token_index, buffer, output_queue,
          node_index, scalars_buffer, result, last_apply, oob_read, answer,
          first_answer>>

----------------------------------------------------------------------------
(* Characters *)

LEFT_PARANTHESES == "("
RIGHT_PARANTHESES == ")"
COMMA == ","
EQUAL_SIGN == "="
MINUS_SIGN == "-"
VARIABLE_X == "x"

Digits == {"0", "1", "2", "3", "4", "5", "6", "7", "8", "9"}

Letters == {"a", "b", "c", "d", "e", "f", "g", "h", "i", "j", "k", "l", "m",
            "n", "o", "p", "q", "r", "s", "t", "u", "v", "w", "x", "y", "z"}

isdigit(c) == c \in Digits

isalpha(c) == c \in Letters

DigitValue(c) ==
    CASE c = "0" -> 0 [] c = "1" -> 1 [] c = "2" -> 2 [] c = "3" -> 3
      [] c = "4" -> 4 [] c = "5" -> 5 [] c = "6" -> 6 [] c = "7" -> 7
      [] c = "8" -> 8 [] c = "9" -> 9

----------------------------------------------------------------------------
(* value_type: exact rationals *)

Abs(n) == IF n < 0 THEN -n ELSE n

RECURSIVE GCD(_, _)
GCD(a, b) == IF b = 0 THEN a ELSE GCD(b, a % b)

Rat(n, d) ==
    LET g == GCD(Abs(n), Abs(d))
        s == IF d < 0 THEN -1 ELSE 1
    IN  <<(s * n) \div g, (s * d) \div g>>

RInt(n) == <<n, 1>>

RAdd(a, b) == Rat(a[1] * b[2] + b[1] * a[2], a[2] * b[2])

RSub(a, b) == Rat(a[1] * b[2] - b[1] * a[2], a[2] * b[2])

RMul(a, b) == Rat(a[1] * b[1], a[2] * b[2])

RDiv(a, b) == Rat(a[1] * b[2], a[2] * b[1])

RLess(a, b) == a[1] * b[2] < b[1] * a[2]

RMax(a, b) == IF RLess(a, b) THEN b ELSE a

RMin(a, b) == IF RLess(b, a) THEN b ELSE a

\* abs(v) < 1e-6, written so that no product leaves the integer range
AbsBelowEps(v) == Abs(v[1]) <= (v[2] - 1) \div 1000000

\* v < 1e-6
BelowEps(v) == v[1] <= (v[2] - 1) \div 1000000

----------------------------------------------------------------------------
(* Results of operations that may throw a string *)

Ok(v) == [ok |-> TRUE, value |-> v]

Throw(msg, id) == [ok |-> FALSE, error |-> msg, id |-> id]

NoId == <<>>

----------------------------------------------------------------------------
(* Tokenizer *)

Token(identifier, token_type) ==
    [identifier |-> identifier, token_type |-> token_type]

RECURSIVE parse_number_loop(_, _, _)
parse_number_loop(e, j, number_dots) ==
    IF j > Len(e)
    THEN [invalid |-> FALSE, j |-> j, number_dots |-> number_dots]
    ELSE IF isalpha(e[j]) \/ e[j] = LEFT_PARANTHESES
    THEN [invalid |-> TRUE, j |-> j, number_dots |-> number_dots]
    ELSE IF ~isdigit(e[j]) /\ e[j] /= "."
    THEN [invalid |-> FALSE, j |-> j, number_dots |-> number_dots]
    ELSE parse_number_loop(e, j + 1,
                           number_dots + (IF e[j] = "." THEN 1 ELSE 0))

parse_number(e) ==
    LET r == parse_number_loop(e, 2, 0)
    IN  IF r.invalid
        THEN Throw("Invalid floating number: contains invalid characters", NoId)
        ELSE IF r.number_dots > 1
        THEN Throw("Invalid floating number: too many dots", NoId)
        ELSE Ok(SubSeq(e, 1, r.j - 1))

RECURSIVE function_name_loop(_, _)
function_name_loop(e, j) ==
    IF j > Len(e) THEN [invalid |-> FALSE, j |-> j]
    ELSE IF ~isalpha(e[j])
    THEN [invalid |-> (e[j] /= LEFT_PARANTHESES /\ e[j] /= " " /\ e[j] /= "\t"),
          j |-> j]
    ELSE function_name_loop(e, j + 1)

\* mutant: a leading x is always the variable
get_token_x_variable(e, expect_op) ==
    LET one(tt) == Ok([token |-> Token(<<e[1]>>, tt), rest |-> Tail(e)])
    IN
    IF e[1] = " " \/ e[1] = "\t"
    THEN Ok([token |-> Token(<<"whitespace">>, "TOKEN_WHITESPACE"),
             rest |-> Tail(e)])
    ELSE IF e[1] = COMMA THEN one("TOKEN_COMMA")
    ELSE IF isdigit(e[1])
    THEN LET n == parse_number(e)
         IN  IF n.ok
             THEN Ok([token |-> Token(n.value, "TOKEN_NUMBER"),
                      rest |-> SubSeq(e, Len(n.value) + 1, Len(e))])
             ELSE n
    ELSE IF e[1] = VARIABLE_X
    THEN one("TOKEN_VARIABLE")
    ELSE IF isalpha(e[1])
    THEN LET r == function_name_loop(e, 2)
         IN  IF r.invalid
             THEN Throw("Invalid function definition", NoId)
             ELSE Ok([token |-> Token(SubSeq(e, 1, r.j - 1), "TOKEN_FUNCTION"),
                      rest |-> SubSeq(e, r.j, Len(e))])
    ELSE IF e[1] = LEFT_PARANTHESES THEN one("TOKEN_LEFT_PARANTHESES")
    ELSE IF e[1] = RIGHT_PARANTHESES THEN one("TOKEN_RIGHT_PARANTHESES")
    ELSE IF e[1] = EQUAL_SIGN THEN one("TOKEN_EQUAL_SIGN")
    ELSE IF e[1] = MINUS_SIGN /\ ~expect_op
    THEN Ok([token |-> Token(<<"~">>, "TOKEN_OPERATOR"), rest |-> Tail(e)])
    ELSE IF e[1] = "+" \/ e[1] = "-" \/ e[1] = "*" \/ e[1] = "/"
    THEN one("TOKEN_OPERATOR")
    ELSE Throw("Invalid operator", NoId)

\* Returns the token and the expression left after erasing it, or the
\* thrown string.
get_token(e, expect_op) ==
    LET one(tt) == Ok([token |-> Token(<<e[1]>>, tt), rest |-> Tail(e)])
    IN
    IF e[1] = " " \/ e[1] = "\t"
    THEN Ok([token |-> Token(<<"whitespace">>, "TOKEN_WHITESPACE"),
             rest |-> Tail(e)])
    ELSE IF e[1] = COMMA THEN one("TOKEN_COMMA")
    ELSE IF isdigit(e[1])
    THEN LET n == parse_number(e)
         IN  IF n.ok
             THEN Ok([token |-> Token(n.value, "TOKEN_NUMBER"),
                      rest |-> SubSeq(e, Len(n.value) + 1, Len(e))])
             ELSE n
    ELSE IF e[1] = VARIABLE_X /\ ~(Len(e) > 2 /\ isalpha(e[2]))
    THEN one("TOKEN_VARIABLE")
    ELSE IF isalpha(e[1])
    THEN LET r == function_name_loop(e, 2)
         IN  IF r.invalid
             THEN Throw("Invalid function definition", NoId)
             ELSE Ok([token |-> Token(SubSeq(e, 1, r.j - 1), "TOKEN_FUNCTION"),
                      rest |-> SubSeq(e, r.j, Len(e))])
    ELSE IF e[1] = LEFT_PARANTHESES THEN one("TOKEN_LEFT_PARANTHESES")
    ELSE IF e[1] = RIGHT_PARANTHESES THEN one("TOKEN_RIGHT_PARANTHESES")
    ELSE IF e[1] = EQUAL_SIGN THEN one("TOKEN_EQUAL_SIGN")
    ELSE IF e[1] = MINUS_SIGN /\ ~expect_op
    THEN Ok([token |-> Token(<<"~">>, "TOKEN_OPERATOR"), rest |-> Tail(e)])
    ELSE IF e[1] = "+" \/ e[1] = "-" \/ e[1] = "*" \/ e[1] = "/"
    THEN one("TOKEN_OPERATOR")
    ELSE Throw("Invalid operator", NoId)

\* mutant: a whitespace token clears expect_operator
next_expect_operator_reset(token, expect_op) ==
    token.token_type \in {"TOKEN_RIGHT_PARANTHESES", "TOKEN_NUMBER",
                          "TOKEN_VARIABLE"}

\* expect_operator after a token has been produced
next_expect_operator(token, expect_op) ==
    IF token.token_type \in {"TOKEN_RIGHT_PARANTHESES", "TOKEN_NUMBER",
                             "TOKEN_VARIABLE"}
    THEN TRUE
    ELSE IF token.token_type /= "TOKEN_WHITESPACE" THEN FALSE
    ELSE expect_op

----------------------------------------------------------------------------
(* Polynomial: the sequence coeff, constant term first *)

Zero == <<RInt(0)>>

\* mutant: a value becomes a polynomial with a zero coefficient of x
PolynomialOfValue_padded(value) == <<value, RInt(0)>>

PolynomialOfValue(value) == <<value>>

PolynomialOfX == <<RInt(0), RInt(1)>>

degree(p) == Len(p)

is_constant(p) == Len(p) = 1

get_0(p) == p[1]

Max2(m, n) == IF m < n THEN n ELSE m

Scale(p, c) == [i \in 1..Len(p) |-> RMul(p[i], c)]

\* mutant: the sum keeps the length of the left operand
operator_plus_left_length(left, right) ==
    Ok([i \in 1..degree(left) |->
          RAdd(left[i], IF i <= degree(right) THEN right[i] ELSE RInt(0))])

operator_plus(left, right) ==
    LET max_degree == Max2(degree(left), degree(right))
    IN  Ok([i \in 1..max_degree |->
              RAdd(IF i <= degree(left) THEN left[i] ELSE RInt(0),
                   IF i <= degree(right) THEN right[i] ELSE RInt(0))])

\* mutant: rejects as soon as either operand is linear
operator_minus_either(left, right) ==
    IF degree(left) > 1 \/ degree(right) > 1
    THEN Throw("Substraction not supported for polynomials of degree >= 1", NoId)
    ELSE Ok([left EXCEPT ![1] = RSub(left[1], right[1])])

operator_minus(left, right) ==
    IF degree(left) > 1 /\ degree(right) > 1
    THEN Throw("Substraction not supported for polynomials of degree >= 1", NoId)
    ELSE Ok([left EXCEPT ![1] = RSub(left[1], right[1])])

\* mutant: always scales the left operand
operator_times_left(left, right) ==
    IF degree(left) >= 2 /\ degree(right) >= 2
    THEN Throw("Multiplication of polynomials of degree >= 2 not allowed", NoId)
    ELSE Ok(Scale(left, right[1]))

operator_times(left, right) ==
    IF degree(left) >= 2 /\ degree(right) >= 2
    THEN Throw("Multiplication of polynomials of degree >= 2 not allowed", NoId)
    ELSE IF degree(left) = Max2(degree(left), degree(right))
    THEN Ok(Scale(left, right[1]))
    ELSE Ok(Scale(right, left[1]))

\* mutant: the zero test comes before the degree test
operator_divide_zero_first(left, right) ==
    IF AbsBelowEps(right[1])
    THEN Throw("Can't divide polynomial by 0", NoId)
    ELSE IF degree(right) > 1
    THEN Throw("Division not supported by polynomials of degree >= 1", NoId)
    ELSE Ok([i \in 1..Len(left) |-> RDiv(left[i], right[1])])

operator_divide(left, right) ==
    IF degree(right) > 1
    THEN Throw("Division not supported by polynomials of degree >= 1", NoId)
    ELSE IF AbsBelowEps(right[1])
    THEN Throw("Can't divide polynomial by 0", NoId)
    ELSE Ok([i \in 1..Len(left) |-> RDiv(left[i], right[1])])

----------------------------------------------------------------------------
(* <cmath>: rational stand-ins for the library functions.  sin, cos and log *)
(* are low-order series (exact at 0, 0 and 1; log is first order so that    *)
(* arguments near 1e-6 stay in the integer range); pow is exact for an      *)
(* integer exponent and a first-order expansion otherwise.                  *)

RECURSIVE IntPow(_, _)
IntPow(a, n) == IF n = 0 THEN RInt(1) ELSE RMul(a, IntPow(a, n - 1))

cmath_sin(v) == RSub(v, RDiv(RMul(v, RMul(v, v)), RInt(6)))

cmath_cos(v) == RSub(RInt(1), RDiv(RMul(v, v), RInt(2)))

cmath_log(v) == RSub(v, RInt(1))

cmath_pow(a, b) ==
    IF b[2] = 1 /\ b[1] >= 0 THEN IntPow(a, b[1])
    ELSE IF b[2] = 1 /\ a[1] /= 0 THEN RDiv(RInt(1), IntPow(a, -b[1]))
    ELSE RAdd(RInt(1), RMul(b, RSub(a, RInt(1))))

----------------------------------------------------------------------------
(* Operation descriptors (the Function classes) and FunctionFactory *)

Str_log == <<"l", "o", "g">>
Str_max == <<"m", "a", "x">>
Str_min == <<"m", "i", "n">>
Str_pow == <<"p", "o", "w">>
Str_sin == <<"s", "i", "n">>
Str_cos == <<"c", "o", "s">>

OperatorIdentifiers == {<<"+">>, <<"-">>, <<"*">>, <<"/">>, <<"~">>}

FunctionIdentifiers == {Str_log, Str_max, Str_min, Str_pow, Str_sin, Str_cos}

get_arity(identifier) ==
    IF identifier \in {<<"~">>, Str_log, Str_sin, Str_cos} THEN 1 ELSE 2

\* mutant: * and / given the precedence of + and -
get_precedence_flat(identifier) ==
    CASE identifier \in {<<"+">>, <<"-">>, <<"*">>, <<"/">>} -> 1
      [] identifier = <<"~">> -> 10

\* precedence is assigned by the operator classes only
get_precedence(identifier) ==
    CASE identifier \in {<<"+">>, <<"-">>} -> 1
      [] identifier \in {<<"*">>, <<"/">>} -> 2
      [] identifier = <<"~">> -> 10

FunctionNode(identifier) ==
    [type |-> "NODE_FUNCTION", identifier |-> identifier]

\* mutant: an unknown function name falls back to a registered function
FunctionFactory_build_fallback(token) ==
    IF token.token_type = "TOKEN_OPERATOR"
    THEN IF token.identifier \in OperatorIdentifiers
         THEN Ok(FunctionNode(token.identifier))
         ELSE Throw("Invalid mathematical operator ", token.identifier)
    ELSE IF token.token_type = "TOKEN_FUNCTION"
    THEN IF token.identifier \in FunctionIdentifiers
         THEN Ok(FunctionNode(token.identifier))
         ELSE Ok(FunctionNode(Str_sin))
    ELSE Ok([type |-> "INDETERMINATE", identifier |-> token.identifier])

\* A token that is neither an operator nor a function falls off the end of
\* build without a return value: the node is marked indeterminate.
FunctionFactory_build(token) ==
    IF token.token_type = "TOKEN_OPERATOR"
    THEN IF token.identifier \in OperatorIdentifiers
         THEN Ok(FunctionNode(token.identifier))
         ELSE Throw("Invalid mathematical operator ", token.identifier)
    ELSE IF token.token_type = "TOKEN_FUNCTION"
    THEN IF token.identifier \in FunctionIdentifiers
         THEN Ok(FunctionNode(token.identifier))
         ELSE Throw("Invalid mathematical function ", token.identifier)
    ELSE Ok([type |-> "INDETERMINATE", identifier |-> token.identifier])

check_arity(identifier, num_scalars) ==
    IF num_scalars /= get_arity(identifier)
    THEN Throw("Invalid number of parameters for ", identifier)
    ELSE Ok(TRUE)

\* mutant: only the first argument is tested
check_constants_first_argument(identifier, scalars) ==
    IF scalars /= <<>> /\ ~is_constant(scalars[1])
    THEN Throw("Can't use ... on polynomials of degree >= 2", identifier)
    ELSE Ok(TRUE)

check_constants(identifier, scalars) ==
    IF \E i \in 1..Len(scalars) : ~is_constant(scalars[i])
    THEN Throw("Can't use ... on polynomials of degree >= 2", identifier)
    ELSE Ok(TRUE)

apply_checked(identifier, scalars) ==
    CASE identifier = <<"+">> -> operator_plus(scalars[1], scalars[2])
      [] identifier = <<"-">> -> operator_minus(scalars[1], scalars[2])
      [] identifier = <<"*">> -> operator_times(scalars[1], scalars[2])
      [] identifier = <<"/">> -> operator_divide(scalars[1], scalars[2])
      [] identifier = <<"~">> ->
            operator_times(PolynomialOfValue(RInt(-1)), scalars[1])
      [] identifier = Str_log ->
            IF BelowEps(get_0(scalars[1]))
            THEN Throw("Can't take logarithm a number less than or equal to 0",
                       NoId)
            ELSE Ok(PolynomialOfValue(cmath_log(get_0(scalars[1]))))
      [] identifier = Str_max ->
            Ok(PolynomialOfValue(RMax(get_0(scalars[1]), get_0(scalars[2]))))
      [] identifier = Str_min ->
            Ok(PolynomialOfValue(RMin(get_0(scalars[1]), get_0(scalars[2]))))
      [] identifier = Str_pow ->
            Ok(PolynomialOfValue(cmath_pow(get_0(scalars[1]),
                                           get_0(scalars[2]))))
      [] identifier = Str_sin ->
            Ok(PolynomialOfValue(cmath_sin(get_0(scalars[1]))))
      [] identifier = Str_cos ->
            Ok(PolynomialOfValue(cmath_cos(get_0(scalars[1]))))

\* Function::apply of the class registered under identifier
apply(identifier, scalars) ==
    LET a == check_arity(identifier, Len(scalars))
        c == IF identifier \in FunctionIdentifiers
             THEN check_constants(identifier, scalars) ELSE Ok(TRUE)
    IN  IF ~a.ok THEN a
        ELSE IF ~c.ok THEN c
        ELSE apply_checked(identifier, scalars)

----------------------------------------------------------------------------
(* Scalar nodes *)

RECURSIVE stod_loop(_, _, _, _, _)
stod_loop(s, i, num, den, after_dot) ==
    IF i > Len(s) THEN Rat(num, den)
    ELSE IF s[i] = "." THEN stod_loop(s, i + 1, num, den, TRUE)
    ELSE stod_loop(s, i + 1, 10 * num + DigitValue(s[i]),
                   IF after_dot THEN 10 * den ELSE den, after_dot)

stod(s) == stod_loop(s, 1, 0, 1, FALSE)

Scalar(token) ==
    IF token.token_type /= "TOKEN_NUMBER" /\ token.token_type /= "TOKEN_VARIABLE"
    THEN Throw("Invalid polynomial value", NoId)
    ELSE Ok([type |-> "NODE_SCALAR", identifier |-> token.identifier,
             value |-> IF token.token_type = "TOKEN_NUMBER"
                       THEN PolynomialOfValue(stod(token.identifier))
                       ELSE PolynomialOfX])

----------------------------------------------------------------------------
(* build_reverse_polish_notation: the pending stack buffer is a sequence    *)
(* whose last element is the top                                            *)

Top(stack) == stack[Len(stack)]

Pop(stack) == SubSeq(stack, 1, Len(stack) - 1)

BuildState(buf, out) == [buffer |-> buf, output_queue |-> out]

\* mutant: a popped operator is not put on the output queue
RECURSIVE pop_operators_lossy(_, _, _)
pop_operators_lossy(buf, out, next_operator) ==
    IF buf /= <<>> /\ Top(buf).token_type = "TOKEN_OPERATOR"
    THEN LET peek_operator == FunctionFactory_build(Top(buf))
         IN  IF ~peek_operator.ok THEN peek_operator
             ELSE IF get_precedence(peek_operator.value.identifier)
                        >= get_precedence(next_operator.identifier)
             THEN pop_operators_lossy(Pop(buf), out, next_operator)
             ELSE Ok(BuildState(buf, out))
    ELSE Ok(BuildState(buf, out))

\* the while loop of the TOKEN_OPERATOR branch
RECURSIVE pop_operators(_, _, _)
pop_operators(buf, out, next_operator) ==
    IF buf /= <<>> /\ Top(buf).token_type = "TOKEN_OPERATOR"
    THEN LET peek_operator == FunctionFactory_build(Top(buf))
         IN  IF ~peek_operator.ok THEN peek_operator
             ELSE IF get_precedence(peek_operator.value.identifier)
                        >= get_precedence(next_operator.identifier)
             THEN pop_operators(Pop(buf), Append(out, peek_operator.value),
                                next_operator)
             ELSE Ok(BuildState(buf, out))
    ELSE Ok(BuildState(buf, out))

\* the while loop of the TOKEN_COMMA and TOKEN_RIGHT_PARANTHESES branches
RECURSIVE pop_to_left_parantheses(_, _)
pop_to_left_parantheses(buf, out) ==
    IF buf /= <<>> /\ Top(buf).token_type /= "TOKEN_LEFT_PARANTHESES"
    THEN LET node == FunctionFactory_build(Top(buf))
         IN  IF ~node.ok THEN node
             ELSE pop_to_left_parantheses(Pop(buf), Append(out, node.value))
    ELSE Ok(BuildState(buf, out))

\* mutant: a function under the left parenthesis stays on the stack
build_token_keep_function(token, buf, out) ==
    IF token.token_type = "TOKEN_WHITESPACE" THEN Ok(BuildState(buf, out))
    ELSE IF token.token_type \in {"TOKEN_NUMBER", "TOKEN_VARIABLE"}
    THEN LET node == Scalar(token)
         IN  IF node.ok THEN Ok(BuildState(buf, Append(out, node.value)))
             ELSE node
    ELSE IF token.token_type = "TOKEN_OPERATOR"
    THEN LET next_operator == FunctionFactory_build(token)
         IN  IF ~next_operator.ok THEN next_operator
             ELSE LET r == pop_operators(buf, out, next_operator.value)
                  IN  IF ~r.ok THEN r
                      ELSE Ok(BuildState(Append(r.value.buffer, token),
                                         r.value.output_queue))
    ELSE IF token.token_type = "TOKEN_FUNCTION"
    THEN Ok(BuildState(Append(buf, token), out))
    ELSE IF token.token_type = "TOKEN_COMMA"
    THEN LET r == pop_to_left_parantheses(buf, out)
         IN  IF ~r.ok THEN r
             ELSE IF r.value.buffer = <<>>
             THEN Throw("Invalid function declaration: missing left parantheses",
                        NoId)
             ELSE r
    ELSE IF token.token_type = "TOKEN_LEFT_PARANTHESES"
    THEN Ok(BuildState(Append(buf, token), out))
    ELSE IF token.token_type = "TOKEN_RIGHT_PARANTHESES"
    THEN LET r == pop_to_left_parantheses(buf, out)
         IN  IF ~r.ok THEN r
             ELSE IF r.value.buffer = <<>>
             THEN Throw("Invalid parantheses: missing left parantheses", NoId)
             ELSE Ok(BuildState(Pop(r.value.buffer), r.value.output_queue))
    ELSE Throw("Unknown token: ", token.identifier)

\* mutant: the comma is pushed on the pending stack
build_token_push_comma(token, buf, out) ==
    IF token.token_type = "TOKEN_WHITESPACE" THEN Ok(BuildState(buf, out))
    ELSE IF token.token_type \in {"TOKEN_NUMBER", "TOKEN_VARIABLE"}
    THEN LET node == Scalar(token)
         IN  IF node.ok THEN Ok(BuildState(buf, Append(out, node.value)))
             ELSE node
    ELSE IF token.token_type = "TOKEN_OPERATOR"
    THEN LET next_operator == FunctionFactory_build(token)
         IN  IF ~next_operator.ok THEN next_operator
             ELSE LET r == pop_operators(buf, out, next_operator.value)
                  IN  IF ~r.ok THEN r
                      ELSE Ok(BuildState(Append(r.value.buffer, token),
                                         r.value.output_queue))
    ELSE IF token.token_type = "TOKEN_FUNCTION"
    THEN Ok(BuildState(Append(buf, token), out))
    ELSE IF token.token_type = "TOKEN_COMMA"
    THEN LET r == pop_to_left_parantheses(buf, out)
         IN  IF ~r.ok THEN r
             ELSE IF r.value.buffer = <<>>
             THEN Throw("Invalid function declaration: missing left parantheses",
                        NoId)
             ELSE Ok(BuildState(Append(r.value.buffer, token),
                                r.value.output_queue))
    ELSE IF token.token_type = "TOKEN_LEFT_PARANTHESES"
    THEN Ok(BuildState(Append(buf, token), out))
    ELSE IF token.token_type = "TOKEN_RIGHT_PARANTHESES"
    THEN LET r == pop_to_left_parantheses(buf, out)
         IN  IF ~r.ok THEN r
             ELSE IF r.value.buffer = <<>>
             THEN Throw("Invalid parantheses: missing left parantheses", NoId)
             ELSE LET b == Pop(r.value.buffer)
                  IN  IF b /= <<>> /\ Top(b).token_type = "TOKEN_FUNCTION"
                      THEN LET node == FunctionFactory_build(Top(b))
                           IN  IF ~node.ok THEN node
                               ELSE Ok(BuildState(Pop(b),
                                         Append(r.value.output_queue,
                                                node.value)))
                      ELSE Ok(BuildState(b, r.value.output_queue))
    ELSE Throw("Unknown token: ", token.identifier)

\* the body of the for loop, for one token
build_token(token, buf, out) ==
    IF token.token_type = "TOKEN_WHITESPACE" THEN Ok(BuildState(buf, out))
    ELSE IF token.token_type \in {"TOKEN_NUMBER", "TOKEN_VARIABLE"}
    THEN LET node == Scalar(token)
         IN  IF node.ok THEN Ok(BuildState(buf, Append(out, node.value)))
             ELSE node
    ELSE IF token.token_type = "TOKEN_OPERATOR"
    THEN LET next_operator == FunctionFactory_build(token)
         IN  IF ~next_operator.ok THEN next_operator
             ELSE LET r == pop_operators(buf, out, next_operator.value)
                  IN  IF ~r.ok THEN r
                      ELSE Ok(BuildState(Append(r.value.buffer, token),
                                         r.value.output_queue))
    ELSE IF token.token_type = "TOKEN_FUNCTION"
    THEN Ok(BuildState(Append(buf, token), out))
    ELSE IF token.token_type = "TOKEN_COMMA"
    THEN LET r == pop_to_left_parantheses(buf, out)
         IN  IF ~r.ok THEN r
             ELSE IF r.value.buffer = <<>>
             THEN Throw("Invalid function declaration: missing left parantheses",
                        NoId)
             ELSE r
    ELSE IF token.token_type = "TOKEN_LEFT_PARANTHESES"
    THEN Ok(BuildState(Append(buf, token), out))
    ELSE IF token.token_type = "TOKEN_RIGHT_PARANTHESES"
    THEN LET r == pop_to_left_parantheses(buf, out)
         IN  IF ~r.ok THEN r
             ELSE IF r.value.buffer = <<>>
             THEN Throw("Invalid parantheses: missing left parantheses", NoId)
             ELSE LET b == Pop(r.value.buffer)
                  IN  IF b /= <<>> /\ Top(b).token_type = "TOKEN_FUNCTION"
                      THEN LET node == FunctionFactory_build(Top(b))
                           IN  IF ~node.ok THEN node
                               ELSE Ok(BuildState(Pop(b),
                                         Append(r.value.output_queue,
                                                node.value)))
                      ELSE Ok(BuildState(b, r.value.output_queue))
    ELSE Throw("Unknown token: ", token.identifier)

\* mutant: the remaining stack is emitted without the parenthesis check
RECURSIVE pop_remaining_unchecked(_, _)
pop_remaining_unchecked(buf, out) ==
    IF buf = <<>> THEN Ok(BuildState(buf, out))
    ELSE LET node == FunctionFactory_build(Top(buf))
         IN  IF ~node.ok THEN node
             ELSE pop_remaining_unchecked(Pop(buf), Append(out, node.value))

\* the loop that pushes the remaining operators onto the output queue
RECURSIVE pop_remaining(_, _)
pop_remaining(buf, out) ==
    IF buf = <<>> THEN Ok(BuildState(buf, out))
    ELSE IF Top(buf).token_type \in {"TOKEN_LEFT_PARANTHESES",
                                     "TOKEN_RIGHT_PARANTHESES"}
    THEN Throw("Mismatched parantheses", NoId)
    ELSE LET node == FunctionFactory_build(Top(buf))
         IN  IF ~node.ok THEN node
             ELSE pop_remaining(Pop(buf), Append(out, node.value))

----------------------------------------------------------------------------
(* process_reverse_polish_notation *)

Reverse(s) == [i \in 1..Len(s) |-> s[Len(s) + 1 - i]]

\* mutant: the operands are handed over as popped, without reverse
process_node_unreversed(node, stack) ==
    IF node.type = "NODE_SCALAR"
    THEN [outcome |-> "pushed", buffer |-> Append(stack, node.value),
          applied |-> FALSE]
    ELSE LET arity == get_arity(node.identifier)
         IN  IF Len(stack) < arity
             THEN [outcome |-> "throw",
                   error |-> "Insufficient number of operands for ",
                   id |-> node.identifier, applied |-> FALSE]
             ELSE LET operands == [i \in 1..arity |-> stack[Len(stack) + 1 - i]]
                      rest == SubSeq(stack, 1, Len(stack) - arity)
                      cur_result == apply(node.identifier, operands)
                  IN  IF cur_result.ok
                      THEN [outcome |-> "pushed",
                            buffer |-> Append(rest, cur_result.value),
                            applied |-> TRUE, operands |-> operands,
                            cur_result |-> cur_result]
                      ELSE [outcome |-> "exit", applied |-> TRUE,
                            operands |-> operands, cur_result |-> cur_result]

\* One iteration of the for loop.  outcome is "pushed", "throw" (the string
\* leaves the function) or "exit" (apply threw: the catch block calls exit).
process_node(node, stack) ==
    IF node.type = "NODE_SCALAR"
    THEN [outcome |-> "pushed", buffer |-> Append(stack, node.value),
          applied |-> FALSE]
    ELSE LET arity == get_arity(node.identifier)
         IN  IF Len(stack) < arity
             THEN [outcome |-> "throw",
                   error |-> "Insufficient number of operands for ",
                   id |-> node.identifier, applied |-> FALSE]
             ELSE LET popped == [i \in 1..arity |-> stack[Len(stack) + 1 - i]]
                      operands == Reverse(popped)
                      rest == SubSeq(stack, 1, Len(stack) - arity)
                      cur_result == apply(node.identifier, operands)
                  IN  IF cur_result.ok
                      THEN [outcome |-> "pushed",
                            buffer |-> Append(rest, cur_result.value),
                            applied |-> TRUE, operands |-> operands,
                            cur_result |-> cur_result]
                      ELSE [outcome |-> "exit", applied |-> TRUE,
                            operands |-> operands, cur_result |-> cur_result]

\* the checks after the loop
process_result(stack) ==
    IF stack = <<>> THEN Throw("Insufficient scalars left", NoId)
    ELSE IF Len(stack) > 1 THEN Throw("Too many scalars left", NoId)
    ELSE Ok(Top(stack))

----------------------------------------------------------------------------
(* Polynomial::solve_degree_1.  coeff1 is what the read of coeff[1] yields. *)

solve_degree_1(coeff, coeff1) ==
    IF degree(coeff) = 0 \/ AbsBelowEps(coeff1)
    THEN IF AbsBelowEps(coeff[1])
         THEN Throw("Expression evaluates to 0, infinite number of solutions",
                    NoId)
         ELSE Throw("Constant can't equal 0, no solutions", NoId)
    ELSE Ok(RDiv(RSub(RInt(0), coeff[1]), coeff1))

----------------------------------------------------------------------------
(* The expressions handed to eval *)

MaxPieces == 3
MaxExprLen == 7
MaxSideLen == 3
MaxArgs == 3
MaxRepeatLen == 3

Str_lag == <<"l", "a", "g">>

BinaryOperators == {<<"+">>, <<"-">>, <<"*">>, <<"/">>}

\* free text: every concatenation of at most MaxPieces pieces
RawPieces == {<<"1">>, <<"0">>, <<"x">>, <<"-">>, <<"=">>, <<"(">>, <<")">>,
              <<",">>, <<" ">>, <<".">>, Str_max, Str_lag}

RECURSIVE Concatenations(_)
Concatenations(n) ==
    IF n = 0 THEN {<<>>}
    ELSE {p \o s : p \in RawPieces, s \in Concatenations(n - 1)}

RawInputs == UNION {Concatenations(n) : n \in 0..MaxPieces}

\* expressions of exactly n lexemes over the given atoms: binary operators,
\* unary minus and parentheses
RECURSIVE Exprs(_, _)
Exprs(n, atoms) ==
    IF n < 1 THEN {}
    ELSE (IF n = 1 THEN atoms ELSE {})
         \cup {<<"-">> \o e : e \in Exprs(n - 1, atoms)}
         \cup {<<"(">> \o e \o <<")">> : e \in Exprs(n - 2, atoms)}
         \cup UNION {{a \o op \o b : a \in Exprs(k, atoms),
                                     b \in Exprs(n - 1 - k, atoms),
                                     op \in BinaryOperators} : k \in 1..(n - 2)}

ConstantAtoms == {<<"2">>, <<"3">>}

ExprInputs == UNION {Exprs(n, ConstantAtoms) : n \in 1..MaxExprLen}

SideExprs == UNION {Exprs(n, ConstantAtoms \cup {<<"x">>}) : n \in 1..MaxSideLen}

EquationInputs == {l \o <<"=">> \o r : l \in SideExprs, r \in SideExprs}

\* function calls with 1..MaxArgs arguments, nested once or added
CallNames == {Str_max, Str_sin, Str_lag}

CallAtoms == {<<"1">>, <<"2">>}

RECURSIVE ArgLists(_, _)
ArgLists(n, args) ==
    IF n = 1 THEN args
    ELSE {a \o <<",">> \o l : a \in args, l \in ArgLists(n - 1, args)}

Calls(args) ==
    {f \o <<"(">> \o l \o <<")">> :
        f \in CallNames, l \in UNION {ArgLists(n, args) : n \in 1..MaxArgs}}

SimpleCalls == Calls(CallAtoms)

CallInputs ==
    SimpleCalls
    \cup {f \o <<"(">> \o c \o <<")">> : f \in CallNames, c \in SimpleCalls}
    \cup {f \o <<"(">> \o a \o <<",">> \o c \o <<")">> :
            f \in CallNames, a \in CallAtoms, c \in SimpleCalls}
    \cup {c \o <<"+">> \o d : c \in SimpleCalls, d \in SimpleCalls}

\* the built-in functions applied to the variable, and log around its
\* domain bound
Str_eps == <<"0", ".", "0", "0", "0", "0", "0", "1">>

UnaryNames == {Str_log, Str_sin, Str_cos}

BinaryNames == {Str_max, Str_min, Str_pow}

FunctionInputs ==
    {f \o <<"(", "x", ")", "=", "1">> : f \in UnaryNames}
    \cup {f \o <<"(", "x", ",", "1", ")", "=", "1">> : f \in BinaryNames}
    \cup {f \o <<"(", "1", ",", "x", ")", "=", "1">> : f \in BinaryNames}
    \cup {f \o <<"(", "2", ",", "3", ")">> : f \in BinaryNames}
    \cup {f \o <<"(">> \o a \o <<")">> :
            f \in UnaryNames,
            a \in {<<"0">>, <<"1">>, <<"2">>, <<"-", "1">>}}
    \cup {Str_log \o <<"(">> \o Str_eps \o <<")">>}

Inputs ==
    RawInputs \cup ExprInputs \cup EquationInputs \cup CallInputs
    \cup FunctionInputs

\* what the out-of-bounds read of coeff[1] in solve_degree_1 may yield
IndeterminateValues == {RInt(0), RInt(1), Rat(-1, 2)}

----------------------------------------------------------------------------
(* State machine of one call of eval *)

NoAnswer == [type |-> "none"]

NoApply == [identifier |-> <<>>]

ErrorAnswer(prefix, r) ==
    [type |-> "error", prefix |-> prefix, error |-> r.error, id |-> r.id]

Init ==
    /\ expression \in Inputs
    /\ pc = "tokenize"
    /\ remaining_expression = expression
    /\ expect_operator = FALSE
    /\ tokens = <<>>
    /\ is_equation = FALSE
    /\ token_index = 1
    /\ buffer = <<>>
    /\ output_queue = <<>>
    /\ node_index = 1
    /\ scalars_buffer = <<>>
    /\ result = Zero
    /\ last_apply = NoApply
    /\ oob_read = FALSE
    /\ answer = NoAnswer
    /\ first_answer = NoAnswer

\* tokenize_expression: one iteration of the while loop
GetToken ==
    /\ pc = "tokenize"
    /\ Len(remaining_expression) > 0
    /\ LET r == get_token(remaining_expression, expect_operator)
       IN  IF r.ok
           THEN /\ tokens' = Append(tokens, r.value.token)
                /\ remaining_expression' = r.value.rest
                /\ expect_operator' =
                       next_expect_operator(r.value.token, expect_operator)
                /\ UNCHANGED <<pc, answer>>
           ELSE /\ pc' = "exited"
                /\ answer' = [type |-> "exit", error |-> r.error, id |-> r.id]
                /\ UNCHANGED <<tokens, remaining_expression, expect_operator>>
    /\ UNCHANGED <<first_answer, expression, is_equation, token_index, buffer, output_queue,
                   node_index, scalars_buffer, result, last_apply, oob_read>>

\* mutant: the count stops at the first equal sign
nr_equal_signs_first(toks) ==
    IF \E i \in 1..Len(toks) : toks[i].token_type = "TOKEN_EQUAL_SIGN"
    THEN 1 ELSE 0

nr_equal_signs(toks) ==
    Cardinality({i \in 1..Len(toks) : toks[i].token_type = "TOKEN_EQUAL_SIGN"})

contains_variable(toks) ==
    \E i \in 1..Len(toks) : toks[i].token_type = "TOKEN_VARIABLE"

\* mutant: an equal sign without a variable is let through
mode_check_variable_only(toks) ==
    IF nr_equal_signs(toks) > 1
    THEN Throw("Expression contains too many equal signs", NoId)
    ELSE IF contains_variable(toks) /\ nr_equal_signs(toks) = 0
    THEN Throw("Expression must contain both a variable and equal sign or neither",
               NoId)
    ELSE Ok(TRUE)

\* the check of the expression form; the thrown string, if any
mode_check(toks) ==
    IF nr_equal_signs(toks) > 1
    THEN Throw("Expression contains too many equal signs", NoId)
    ELSE IF (contains_variable(toks) /\ nr_equal_signs(toks) = 0)
            \/ (~contains_variable(toks) /\ nr_equal_signs(toks) /= 0)
    THEN Throw("Expression must contain both a variable and equal sign or neither",
               NoId)
    ELSE Ok(TRUE)

\* Change equal sign to minus
rewrite_equal_signs(toks) ==
    [i \in 1..Len(toks) |->
        IF toks[i].token_type = "TOKEN_EQUAL_SIGN"
        THEN Token(<<"-">>, "TOKEN_OPERATOR") ELSE toks[i]]

\* compute_constant_result, from the end of tokenization to the build
DecideMode ==
    /\ pc = "tokenize"
    /\ Len(remaining_expression) = 0
    /\ LET m == mode_check(tokens)
       IN  IF m.ok
           THEN /\ tokens' = rewrite_equal_signs(tokens)
                /\ is_equation' = contains_variable(tokens)
                /\ pc' = "build"
                /\ UNCHANGED answer
           ELSE /\ pc' = "done"
                /\ answer' = ErrorAnswer("", m)
                /\ UNCHANGED <<tokens, is_equation>>
    /\ UNCHANGED <<first_answer, expression, remaining_expression, expect_operator,
                   token_index, buffer, output_queue, node_index,
                   scalars_buffer, result, last_apply, oob_read>>

BuildPrefix == "Error in building reverse polish notation: "

ProcessPrefix == "Error in processing reverse polish notation: "

\* build_reverse_polish_notation: one iteration of the for loop
BuildToken ==
    /\ pc = "build"
    /\ token_index <= Len(tokens)
    /\ LET r == build_token(tokens[token_index], buffer, output_queue)
       IN  IF r.ok
           THEN /\ buffer' = r.value.buffer
                /\ output_queue' = r.value.output_queue
                /\ token_index' = token_index + 1
                /\ UNCHANGED <<pc, answer>>
           ELSE /\ pc' = "done"
                /\ answer' = ErrorAnswer(BuildPrefix, r)
                /\ UNCHANGED <<buffer, output_queue, token_index>>
    /\ UNCHANGED <<first_answer, expression, remaining_expression, expect_operator, tokens,
                   is_equation, node_index, scalars_buffer, result, last_apply,
                   oob_read>>

\* build_reverse_polish_notation: after the for loop
BuildFinish ==
    /\ pc = "build"
    /\ token_index > Len(tokens)
    /\ LET r == pop_remaining(buffer, output_queue)
       IN  IF r.ok
           THEN /\ buffer' = r.value.buffer
                /\ output_queue' = r.value.output_queue
                /\ pc' = "process"
                /\ UNCHANGED answer
           ELSE /\ pc' = "done"
                /\ answer' = ErrorAnswer(BuildPrefix, r)
                /\ UNCHANGED <<buffer, output_queue>>
    /\ UNCHANGED <<first_answer, expression, remaining_expression, expect_operator, tokens,
                   is_equation, token_index, node_index, scalars_buffer, result,
                   last_apply, oob_read>>

\* process_reverse_polish_notation: one iteration of the for loop
ProcessNode ==
    /\ pc = "process"
    /\ node_index <= Len(output_queue)
    /\ LET r == process_node(output_queue[node_index], scalars_buffer)
       IN  /\ last_apply' =
                 IF r.applied
                 THEN [identifier |-> output_queue[node_index].identifier,
                       operands |-> r.operands, cur_result |-> r.cur_result]
                 ELSE last_apply
           /\ IF r.outcome = "pushed"
              THEN /\ scalars_buffer' = r.buffer
                   /\ node_index' = node_index + 1
                   /\ UNCHANGED <<pc, answer>>
              ELSE IF r.outcome = "throw"
              THEN /\ pc' = "done"
                   /\ answer' = ErrorAnswer(ProcessPrefix, r)
                   /\ UNCHANGED <<scalars_buffer, node_index>>
              ELSE /\ pc' = "exited"
                   /\ answer' = [type |-> "exit", error |-> r.cur_result.error,
                                 id |-> r.cur_result.id]
                   /\ UNCHANGED <<scalars_buffer, node_index>>
    /\ UNCHANGED <<first_answer, expression, remaining_expression, expect_operator, tokens,
                   is_equation, token_index, buffer, output_queue, result,
                   oob_read>>

\* process_reverse_polish_notation: after the for loop
ProcessFinish ==
    /\ pc = "process"
    /\ node_index > Len(output_queue)
    /\ LET r == process_result(scalars_buffer)
       IN  IF r.ok
           THEN /\ result' = r.value
                /\ pc' = "result"
                /\ UNCHANGED answer
           ELSE /\ pc' = "done"
                /\ answer' = ErrorAnswer(ProcessPrefix, r)
                /\ UNCHANGED result
    /\ UNCHANGED <<first_answer, expression, remaining_expression, expect_operator, tokens,
                   is_equation, token_index, buffer, output_queue, node_index,
                   scalars_buffer, last_apply, oob_read>>

\* compute_constant_result: the final result, and eval's return value.
\* answer.value is the value_type that eval writes to its stringstream; the
\* decimal rendering is not part of the model.
\* A result of one coefficient makes solve_degree_1 read coeff[1] past the
\* end of the vector: the read yields an indeterminate value.
FinalResult ==
    /\ pc = "result"
    /\ IF ~is_equation
       THEN /\ answer' = [type |-> "number", value |-> get_0(result)]
            /\ pc' = "done"
            /\ UNCHANGED oob_read
       ELSE \E coeff1 \in (IF degree(result) >= 2 THEN {result[2]}
                           ELSE IndeterminateValues) :
              LET r == solve_degree_1(result, coeff1)
              IN  /\ oob_read' = (degree(result) < 2)
                  /\ \/ /\ pc' = "done"
                        /\ answer' = IF r.ok
                                     THEN [type |-> "number", value |-> r.value]
                                     ELSE ErrorAnswer("", r)
                     \/ /\ degree(result) < 2
                        /\ pc' = "crashed"
                        /\ answer' = [type |-> "crash"]
    /\ UNCHANGED <<first_answer, expression, remaining_expression, expect_operator, tokens,
                   is_equation, token_index, buffer, output_queue, node_index,
                   scalars_buffer, result, last_apply>>

\* eval is called again on the same Calculator with the same expression
\* (main and test call eval in sequence).  Every variable of a call is a
\* local of that call; the Calculator's only member, verbose, is never
\* written.  first_answer keeps what the first call returned.
EvalAgain ==
    /\ pc = "done"
    /\ first_answer = NoAnswer
    /\ Len(expression) <= MaxRepeatLen
    /\ first_answer' = answer
    /\ pc' = "tokenize"
    /\ remaining_expression' = expression
    /\ expect_operator' = FALSE
    /\ tokens' = <<>>
    /\ is_equation' = FALSE
    /\ token_index' = 1
    /\ buffer' = <<>>
    /\ output_queue' = <<>>
    /\ node_index' = 1
    /\ scalars_buffer' = <<>>
    /\ result' = Zero
    /\ last_apply' = NoApply
    /\ oob_read' = FALSE
    /\ answer' = NoAnswer
    /\ UNCHANGED expression

Next ==
    \/ EvalAgain
    \/ GetToken
    \/ DecideMode
    \/ BuildToken
    \/ BuildFinish
    \/ ProcessNode
    \/ ProcessFinish
    \/ FinalResult

Spec == Init /\ [][Next]_vars

----------------------------------------------------------------------------
(* Function::apply called on its own, on any vector of scalars *)

MaxApplyArgs == 3

ApplyValues(identifier) ==
    {<<RInt(0)>>, <<RInt(1)>>, <<RInt(2)>>, <<RInt(-1)>>,
     PolynomialOfX, <<RInt(1), RInt(1)>>}
    \cup (IF identifier = Str_log
          THEN {<<Rat(1, 1000000)>>, <<Rat(1, 2000000)>>} ELSE {})

ApplyInit ==
    /\ expression = <<>>
    /\ pc = "apply"
    /\ remaining_expression = <<>>
    /\ expect_operator = FALSE
    /\ tokens = <<>>
    /\ is_equation = FALSE
    /\ token_index = 1
    /\ buffer = <<>>
    /\ output_queue = <<>>
    /\ node_index = 1
    /\ scalars_buffer = <<>>
    /\ result = Zero
    /\ last_apply = NoApply
    /\ oob_read = FALSE
    /\ answer = NoAnswer
    /\ first_answer = NoAnswer

ApplyFunction ==
    /\ pc = "apply"
    /\ \E identifier \in FunctionIdentifiers, n \in 0..MaxApplyArgs :
          \E scalars \in [1..n -> ApplyValues(identifier)] :
             last_apply' = [identifier |-> identifier, operands |-> scalars,
                            cur_result |-> apply(identifier, scalars)]
    /\ pc' = "applied"
    /\ UNCHANGED <<first_answer, expression, remaining_expression,
                   expect_operator, tokens, is_equation, token_index, buffer,
                   output_queue, node_index, scalars_buffer, result, oob_read,
                   answer>>

SpecApply == ApplyInit /\ [][ApplyFunction]_vars

----------------------------------------------------------------------------
(* Reference semantics: a recursive-descent evaluation of the text under    *)
(* standard arithmetic (unary minus, then * and /, then + and -, each       *)
(* binary level left-associative, parentheses first), with x bound to xv.   *)

RefFail == [ok |-> FALSE, value |-> RInt(0), pos |-> 0]

RefOk(v, pos) == [ok |-> TRUE, value |-> v, pos |-> pos]

RECURSIVE RefNumber(_, _, _)
RefNumber(s, i, acc) ==
    IF i <= Len(s) /\ isdigit(s[i])
    THEN RefNumber(s, i + 1, 10 * acc + DigitValue(s[i]))
    ELSE RefOk(RInt(acc), i)

RECURSIVE RefExpr(_, _, _)
RECURSIVE RefExprRest(_, _, _, _)
RECURSIVE RefTerm(_, _, _)
RECURSIVE RefTermRest(_, _, _, _)
RECURSIVE RefUnary(_, _, _)
RECURSIVE RefPrimary(_, _, _)

RefPrimary(s, i, xv) ==
    IF i > Len(s) THEN RefFail
    ELSE IF isdigit(s[i]) THEN RefNumber(s, i, 0)
    ELSE IF s[i] = "x" THEN RefOk(xv, i + 1)
    ELSE IF s[i] = "("
    THEN LET r == RefExpr(s, i + 1, xv)
         IN  IF r.ok /\ r.pos <= Len(s) /\ s[r.pos] = ")"
             THEN RefOk(r.value, r.pos + 1) ELSE RefFail
    ELSE RefFail

RefUnary(s, i, xv) ==
    IF i <= Len(s) /\ s[i] = "-"
    THEN LET r == RefUnary(s, i + 1, xv)
         IN  IF r.ok THEN RefOk(RSub(RInt(0), r.value), r.pos) ELSE RefFail
    ELSE RefPrimary(s, i, xv)

RefTermRest(s, i, xv, acc) ==
    IF i <= Len(s) /\ s[i] \in {"*", "/"}
    THEN LET r == RefUnary(s, i + 1, xv)
         IN  IF ~r.ok THEN RefFail
             ELSE IF s[i] = "*"
             THEN RefTermRest(s, r.pos, xv, RMul(acc, r.value))
             ELSE IF r.value[1] = 0 THEN RefFail
             ELSE RefTermRest(s, r.pos, xv, RDiv(acc, r.value))
    ELSE RefOk(acc, i)

RefTerm(s, i, xv) ==
    LET r == RefUnary(s, i, xv)
    IN  IF r.ok THEN RefTermRest(s, r.pos, xv, r.value) ELSE RefFail

RefExprRest(s, i, xv, acc) ==
    IF i <= Len(s) /\ s[i] \in {"+", "-"}
    THEN LET r == RefTerm(s, i + 1, xv)
         IN  IF ~r.ok THEN RefFail
             ELSE IF s[i] = "+"
             THEN RefExprRest(s, r.pos, xv, RAdd(acc, r.value))
             ELSE RefExprRest(s, r.pos, xv, RSub(acc, r.value))
    ELSE RefOk(acc, i)

RefExpr(s, i, xv) ==
    LET r == RefTerm(s, i, xv)
    IN  IF r.ok THEN RefExprRest(s, r.pos, xv, r.value) ELSE RefFail

\* the value of the whole text, ok = FALSE when it is not a well-formed
\* expression or divides by zero
RefValue(s, xv) ==
    LET r == RefExpr(s, 1, xv)
    IN  IF r.ok /\ r.pos = Len(s) + 1 THEN r ELSE RefFail

Occurs(c, s) == \E i \in 1..Len(s) : s[i] = c

Ended == pc \in {"done", "exited", "crashed"}

----------------------------------------------------------------------------
(* C1 *)

\* C1: for every input eval returns a string and the process keeps running:
\* no evaluation ends with the process terminated.
C1_EvalAlwaysReturns == pc \notin {"exited", "crashed"}

----------------------------------------------------------------------------
(* C2 *)

IsEquationText(s) ==
    /\ Cardinality({i \in 1..Len(s) : s[i] = "="}) = 1
    /\ Occurs("x", s)
    /\ \A i \in 1..Len(s) :
          s[i] \in Digits \cup {"x", "=", "+", "-", "*", "/", "(", ")"}

EqualsAt(s) == CHOOSE i \in 1..Len(s) : s[i] = "="

LeftSide(s) == SubSeq(s, 1, EqualsAt(s) - 1)

RightSide(s) == SubSeq(s, EqualsAt(s) + 1, Len(s))

\* C2: when eval answers an equation L = R with a number v, then v is a root
\* of L - (R): L evaluated at x = v equals R evaluated at x = v.
C2_EquationRoot ==
    (pc = "done" /\ IsEquationText(expression) /\ answer.type = "number"
       /\ ~oob_read)
    => LET v == answer.value
           l == RefValue(LeftSide(expression), v)
           r == RefValue(RightSide(expression), v)
       IN  (l.ok /\ r.ok) => l.value = r.value

----------------------------------------------------------------------------
(* C3 *)

\* only numbers, binary + - * / and parentheses, well formed, defined
IsArithmetic(s) ==
    /\ \A i \in 1..Len(s) : s[i] \in Digits \cup {"+", "-", "*", "/", "(", ")"}
    /\ \A i \in 1..Len(s) :
          s[i] = "-" => (i > 1 /\ s[i - 1] \in Digits \cup {")"})
    /\ RefValue(s, RInt(0)).ok

\* C3: for a well-formed input of numbers, binary + - * / and parentheses the
\* value eval computes is the value of the expression under standard
\* arithmetic (precedence, left associativity, parentheses).
C3_StandardArithmetic ==
    (Ended /\ IsArithmetic(expression))
    => (answer.type = "number"
        /\ answer.value = RefValue(expression, RInt(0)).value)

C3_Witness ==
    /\ pc = "done"
    /\ IsArithmetic(expression)
    /\ Len(expression) = 7
    /\ Occurs("(", expression)
    /\ Occurs("-", expression)
    /\ Occurs("/", expression)
    /\ answer.type = "number"

----------------------------------------------------------------------------
(* C4 *)

\* k >= 1 minus signs followed by one digit
IsNegatedNumber(s) ==
    /\ Len(s) >= 2
    /\ s[Len(s)] \in Digits
    /\ \A i \in 1..(Len(s) - 1) : s[i] = "-"

\* C4: every ~ is placed after its operand in the postfix sequence, so k
\* unary minus signs before a number n evaluate to (-1)^k * n.
C4_UnaryMinusNegates ==
    (Ended /\ IsNegatedNumber(expression))
    => /\ answer.type = "number"
       /\ answer.value =
            RInt((IF (Len(expression) - 1) % 2 = 0 THEN 1 ELSE -1)
                 * DigitValue(expression[Len(expression)]))

----------------------------------------------------------------------------
(* C5 *)

\* C5: in equation mode solveLinear never reads a coefficient at an index
\* outside the coefficient sequence, whatever value the evaluator produced.
C5_SolveLinearInBounds == pc /= "crashed" /\ ~oob_read

----------------------------------------------------------------------------
(* C6 *)

ParenDepth(s, i, k) ==
    Cardinality({m \in i..k : s[m] = "("})
    - Cardinality({m \in i..k : s[m] = ")"})

\* the calls of the text: positions of a "(" that follows a letter and has a
\* matching ")"
CallSites(s) ==
    {i \in 2..Len(s) :
        /\ s[i] = "("
        /\ isalpha(s[i - 1])
        /\ \E j \in (i + 1)..Len(s) : ParenDepth(s, i, j) = 0}

CallClose(s, i) ==
    CHOOSE j \in (i + 1)..Len(s) :
        /\ ParenDepth(s, i, j) = 0
        /\ \A m \in (i + 1)..(j - 1) : ParenDepth(s, i, m) /= 0

CallName(s, i) ==
    LET start == CHOOSE p \in 1..(i - 1) :
                    /\ \A m \in p..(i - 1) : isalpha(s[m])
                    /\ (p = 1 \/ ~isalpha(s[p - 1]))
    IN  SubSeq(s, start, i - 1)

CallArgCount(s, i) ==
    IF CallClose(s, i) = i + 1 THEN 0
    ELSE 1 + Cardinality({m \in (i + 1)..(CallClose(s, i) - 1) :
                             s[m] = "," /\ ParenDepth(s, i, m) = 1})

HasArityMismatch(s) ==
    \E i \in CallSites(s) :
        /\ CallName(s, i) \in FunctionIdentifiers
        /\ CallArgCount(s, i) /= get_arity(CallName(s, i))

\* C6: an input holding a call whose argument count differs from the arity of
\* the function never yields a numeric answer.
C6_ArityMismatchIsError ==
    (pc = "done" /\ HasArityMismatch(expression)) => answer.type = "error"

----------------------------------------------------------------------------
(* C7 *)

EqualsTokens(toks) ==
    Len(SelectSeq(toks, LAMBDA t : t.token_type = "TOKEN_EQUAL_SIGN"))

VariableTokens(toks) ==
    Len(SelectSeq(toks, LAMBDA t : t.token_type = "TOKEN_VARIABLE"))

TooManyEqualsSigns == "Expression contains too many equal signs"

InconsistentEquationForm ==
    "Expression must contain both a variable and equal sign or neither"

\* C7: on the complete token sequence the orchestrator signals
\* TooManyEqualsSigns when there is more than one Equals token, otherwise
\* InconsistentEquationForm exactly when "has a Variable" and "has exactly one
\* Equals" differ, and goes on to the build in the remaining cases only.
C7_ModeChecks ==
    [][(pc = "tokenize" /\ Len(remaining_expression) = 0)
        => IF EqualsTokens(tokens) > 1
           THEN pc' = "done" /\ answer'.type = "error"
                /\ answer'.error = TooManyEqualsSigns
           ELSE IF (VariableTokens(tokens) > 0) /= (EqualsTokens(tokens) = 1)
           THEN pc' = "done" /\ answer'.type = "error"
                /\ answer'.error = InconsistentEquationForm
           ELSE pc' = "build" /\ answer' = answer]_vars

C7_Witness ==
    /\ pc = "done"
    /\ answer.type = "error"
    /\ answer.error = InconsistentEquationForm
    /\ VariableTokens(tokens) = 0
    /\ EqualsTokens(tokens) = 1

----------------------------------------------------------------------------
(* C8 *)

\* "(" minus ")" among the first k tokens
TokenDepth(toks, k) ==
    Cardinality({m \in 1..k : toks[m].token_type = "TOKEN_LEFT_PARANTHESES"})
    - Cardinality({m \in 1..k : toks[m].token_type = "TOKEN_RIGHT_PARANTHESES"})

Balanced(toks) ==
    /\ \A k \in 1..Len(toks) : TokenDepth(toks, k) >= 0
    /\ TokenDepth(toks, Len(toks)) = 0
    /\ \A k \in 1..Len(toks) :
          toks[k].token_type = "TOKEN_COMMA" => TokenDepth(toks, k) > 0

AllRegistered(toks) ==
    \A k \in 1..Len(toks) :
        /\ toks[k].token_type = "TOKEN_OPERATOR"
              => toks[k].identifier \in OperatorIdentifiers
        /\ toks[k].token_type = "TOKEN_FUNCTION"
              => toks[k].identifier \in FunctionIdentifiers

MismatchedParen ==
    {"Invalid function declaration: missing left parantheses",
     "Invalid parantheses: missing left parantheses",
     "Mismatched parantheses"}

BuildSucceeded == pc \in {"process", "result"}

BuildFailed ==
    pc = "done" /\ answer.type = "error" /\ answer.prefix = BuildPrefix

\* C8: with every operator and function registered, the build succeeds only
\* on balanced parentheses (each ")" and each comma inside an open "(", no
\* "(" left open), fails with MismatchedParen otherwise, and no parenthesis
\* reaches the output sequence.
C8_BalancedParens ==
    /\ BuildSucceeded => Balanced(tokens)
    /\ (BuildFailed /\ AllRegistered(tokens))
          => (answer.error \in MismatchedParen /\ ~Balanced(tokens))
    /\ \A i \in 1..Len(output_queue) :
          /\ output_queue[i].type \in {"NODE_SCALAR", "NODE_FUNCTION"}
          /\ output_queue[i].identifier \notin {<<"(">>, <<")">>}

C8_Witness ==
    /\ BuildFailed
    /\ AllRegistered(tokens)
    /\ answer.error = "Mismatched parantheses"
    /\ \E k \in 1..Len(tokens) : tokens[k].token_type = "TOKEN_RIGHT_PARANTHESES"

----------------------------------------------------------------------------
(* C9 *)

HasUnregisteredFunction(toks) ==
    \E k \in 1..Len(toks) :
        /\ toks[k].token_type = "TOKEN_FUNCTION"
        /\ toks[k].identifier \notin FunctionIdentifiers

\* C9 as stated: an input with an unregistered Function token never yields a
\* number, and eval returns a builder error for every such input.
C9_UnknownFunctionBuilderError ==
    (pc = "done" /\ HasUnregisteredFunction(tokens))
    => (answer.type = "error" /\ answer.prefix = BuildPrefix)

\* C9 amended: an input with an unregistered Function token never yields a
\* number and its build never succeeds; eval returns a builder error for
\* every such input that passes the mode checks, and the mode error
\* otherwise.
C9_UnknownFunctionNoAnswer ==
    HasUnregisteredFunction(tokens)
    => /\ answer.type /= "number"
       /\ ~BuildSucceeded
       /\ pc = "done"
            => /\ answer.type = "error"
               /\ \/ answer.prefix = BuildPrefix
                  \/ answer.error \in {TooManyEqualsSigns,
                                       InconsistentEquationForm}

C9_Witness ==
    /\ pc = "done"
    /\ HasUnregisteredFunction(tokens)
    /\ answer.type = "error"
    /\ answer.prefix = BuildPrefix
    /\ answer.error = "Invalid mathematical function "
    /\ answer.id = Str_lag

----------------------------------------------------------------------------
(* C10 *)

UnsupportedSubtraction ==
    "Substraction not supported for polynomials of degree >= 1"

----------------------------------------------------------------------------
(* C11 *)

UnsupportedMultiplication ==
    "Multiplication of polynomials of degree >= 2 not allowed"

\* C11: multiply(a, b) signals UnsupportedOperation exactly when both have
\* at least two coefficients; otherwise the result is the longer operand (the
\* left one on equal lengths) with every coefficient multiplied by the
\* constant term of the other, the same for either order of the operands.
C11_Multiply ==
    last_apply.identifier = <<"*">>
    => LET a == last_apply.operands[1]
           b == last_apply.operands[2]
           r == last_apply.cur_result
           longer == IF Len(b) > Len(a) THEN b ELSE a
           factor == IF Len(b) > Len(a) THEN a[1] ELSE b[1]
       IN  /\ ~r.ok <=> (Len(a) >= 2 /\ Len(b) >= 2)
           /\ ~r.ok => r.error = UnsupportedMultiplication
           /\ r.ok => /\ Len(r.value) = Len(longer)
                      /\ \A i \in 1..Len(longer) :
                            r.value[i] = RMul(longer[i], factor)
                      /\ operator_times(b, a) = r

C11_Witness ==
    /\ last_apply.identifier = <<"*">>
    /\ Len(last_apply.operands[1]) = 1
    /\ Len(last_apply.operands[2]) = 2
    /\ last_apply.operands[1][1] \notin {RInt(0), RInt(1)}
    /\ last_apply.cur_result.ok
    /\ Len(last_apply.cur_result.value) = 2

----------------------------------------------------------------------------
(* C12 *)

ConstantOrLinear(p) == Len(p) \in {1, 2}

CoefficientOrZero(p, i) == IF i <= Len(p) THEN p[i] ELSE RInt(0)

\* C12: every Algebraic Value of an evaluation (node values, the evaluator's
\* stack, operands and results of every operation, the final value) has one
\* or two coefficients, and add yields max(len(a), len(b)) coefficients, the
\* position-wise sums with missing positions taken as 0.
C12_ValueLengths ==
    /\ \A i \in 1..Len(output_queue) :
          output_queue[i].type = "NODE_SCALAR"
             => ConstantOrLinear(output_queue[i].value)
    /\ \A i \in 1..Len(scalars_buffer) : ConstantOrLinear(scalars_buffer[i])
    /\ ConstantOrLinear(result)
    /\ last_apply /= NoApply
          => /\ \A i \in 1..Len(last_apply.operands) :
                   ConstantOrLinear(last_apply.operands[i])
             /\ last_apply.cur_result.ok
                   => ConstantOrLinear(last_apply.cur_result.value)
    /\ last_apply.identifier = <<"+">>
          => LET a == last_apply.operands[1]
                 b == last_apply.operands[2]
                 r == last_apply.cur_result
             IN  /\ r.ok
                 /\ Len(r.value) = (IF Len(a) < Len(b) THEN Len(b) ELSE Len(a))
                 /\ \A i \in 1..Len(r.value) :
                       r.value[i] = RAdd(CoefficientOrZero(a, i),
                                         CoefficientOrZero(b, i))

C12_Witness ==
    /\ last_apply.identifier = <<"+">>
    /\ Len(last_apply.operands[1]) = 1
    /\ Len(last_apply.operands[2]) = 2
    /\ Len(last_apply.cur_result.value) = 2
    /\ Len(scalars_buffer) >= 1

----------------------------------------------------------------------------
(* C13 *)

Eps == <<1, 1000000>>

RAbs(v) == <<Abs(v[1]), v[2]>>

DivisionUnsupported == "Division not supported by polynomials of degree >= 1"

DivisionByZero == "Can't divide polynomial by 0"

\* C13: divide(a, b) signals DivisionUnsupported when b has more than one
\* coefficient (tested first), DivisionByZero when |b[0]| < 1e-6, and
\* otherwise returns a value of the length of a with every coefficient
\* divided by b[0]; for constants, multiplying the quotient by b restores a.
C13_Divide ==
    last_apply.identifier = <<"/">>
    => LET a == last_apply.operands[1]
           b == last_apply.operands[2]
           r == last_apply.cur_result
       IN  IF Len(b) > 1
           THEN ~r.ok /\ r.error = DivisionUnsupported
           ELSE IF RLess(RAbs(b[1]), Eps)
           THEN ~r.ok /\ r.error = DivisionByZero
           ELSE /\ r.ok
                /\ Len(r.value) = Len(a)
                /\ \A i \in 1..Len(a) : r.value[i] = RDiv(a[i], b[1])
                /\ Len(a) = 1 => operator_times(r.value, b) = Ok(a)

C13_Witness ==
    /\ last_apply.identifier = <<"/">>
    /\ Len(last_apply.operands[2]) = 2
    /\ last_apply.operands[2][1] = RInt(0)
    /\ ~last_apply.cur_result.ok
    /\ last_apply.cur_result.error = DivisionUnsupported

----------------------------------------------------------------------------
(* C14 *)

NonWhitespace(toks) ==
    {i \in 1..Len(toks) : toks[i].token_type /= "TOKEN_WHITESPACE"}

LastOf(S) == CHOOSE i \in S : \A j \in S : j <= i

\* the flag the tokens produced so far call for
ExpectOperatorNext(toks) ==
    /\ NonWhitespace(toks) /= {}
    /\ toks[LastOf(NonWhitespace(toks))].token_type
          \in {"TOKEN_NUMBER", "TOKEN_VARIABLE", "TOKEN_RIGHT_PARANTHESES"}

TokenProduced == pc = "tokenize" /\ Len(tokens') = Len(tokens) + 1

\* C14: before each token is read expect_operator is true exactly when the
\* most recent non-whitespace token is a number, a variable or a right
\* parenthesis (false when there is none); a leading '-' becomes the binary
\* operator "-" exactly when the flag is true and the unary "~" exactly when
\* it is false; a whitespace token leaves the flag as it was.
C14_ExpectOperator ==
    [][/\ pc = "tokenize" => expect_operator = ExpectOperatorNext(tokens)
       /\ pc' = "tokenize" => expect_operator' = ExpectOperatorNext(tokens')
       /\ (TokenProduced /\ remaining_expression[1] = MINUS_SIGN)
             => tokens'[Len(tokens')] =
                   Token(IF expect_operator THEN <<"-">> ELSE <<"~">>,
                         "TOKEN_OPERATOR")
       /\ (TokenProduced
             /\ tokens'[Len(tokens')].token_type = "TOKEN_WHITESPACE")
             => expect_operator' = expect_operator]_vars

C14_Witness ==
    /\ pc = "tokenize"
    /\ Len(tokens) = 3
    /\ tokens[1].token_type = "TOKEN_NUMBER"
    /\ tokens[2].token_type = "TOKEN_WHITESPACE"
    /\ tokens[3] = Token(<<"-">>, "TOKEN_OPERATOR")
    /\ ~expect_operator

----------------------------------------------------------------------------
(* C15 *)

\* an upper bound on the steps one call of eval still has to take
StepsLeft ==
    CASE pc = "tokenize" ->
            Len(remaining_expression) + 2 * Len(expression) + 5
      [] pc = "build" ->
            (Len(tokens) + 1 - token_index) + Len(expression) + 3
      [] pc = "process" -> (Len(output_queue) + 1 - node_index) + 2
      [] pc = "result" -> 1
      [] OTHER -> 0

SameCall == first_answer' = first_answer

\* C15: every evaluation terminates: a tokenizer step that produces a token
\* removes at least one character (at most one token per character), the
\* builder never holds or emits more nodes than the tokens it has handled,
\* the evaluator handles each node once, every step of a call brings its end
\* nearer, and a call ends with a result or an error.
C15_Terminates ==
    [][SameCall =>
          /\ StepsLeft' < StepsLeft
          /\ TokenProduced
                => Len(remaining_expression') < Len(remaining_expression)
          /\ pc' = "tokenize"
                => Len(tokens') + Len(remaining_expression')
                      <= Len(expression)
          /\ pc' = "build"
                => Len(buffer') + Len(output_queue') <= token_index' - 1
          /\ (pc = "process" /\ pc' = "process")
                => /\ node_index <= Len(output_queue)
                   /\ node_index' = node_index + 1
                   /\ output_queue' = output_queue
          /\ pc' \in {"tokenize", "build", "process", "result"} \/ Ended'
          /\ Ended' => answer'.type \in {"number", "error", "exit"}]_vars

----------------------------------------------------------------------------
(* C16 *)

EvaluatorError(message, id) ==
    [type |-> "error",
     prefix |-> "Error in processing reverse polish notation: ",
     error |-> message, id |-> id]

\* the step of the evaluator at an operation node of arity k
OperationStep(node, k) ==
    LET n == Len(scalars_buffer)
        top_k == SubSeq(scalars_buffer, n - k + 1, n)
    IN  IF n < k
        THEN /\ pc' = "done"
             /\ answer' = EvaluatorError("Insufficient number of operands for ",
                                         node.identifier)
        ELSE /\ last_apply'.identifier = node.identifier
             /\ last_apply'.operands = top_k
             /\ last_apply'.cur_result = apply(node.identifier, top_k)
             /\ IF last_apply'.cur_result.ok
                THEN /\ pc' = "process"
                     /\ scalars_buffer' =
                           Append(SubSeq(scalars_buffer, 1, n - k),
                                  last_apply'.cur_result.value)
                ELSE pc' = "exited"

\* the step of the evaluator after the last node
EndOfSequenceStep ==
    CASE Len(scalars_buffer) = 0 ->
            /\ pc' = "done"
            /\ answer' = EvaluatorError("Insufficient scalars left", NoId)
      [] Len(scalars_buffer) = 1 ->
            /\ pc' = "result"
            /\ result' = scalars_buffer[1]
      [] OTHER ->
            /\ pc' = "done"
            /\ answer' = EvaluatorError("Too many scalars left", NoId)

\* C16: after the whole postfix sequence the evaluator returns a result only
\* if exactly one value is on its stack (InsufficientOperands when it is
\* empty, ExcessOperands when more remain); an operation of arity k that finds
\* fewer than k values signals InsufficientOperands naming the operation, and
\* otherwise is applied to the top k values in the order they were pushed,
\* its result taking their place.
C16_EvaluatorStack ==
    [][pc = "process" =>
          /\ node_index > Len(output_queue) => EndOfSequenceStep
          /\ (node_index <= Len(output_queue)
                /\ output_queue[node_index].type /= "NODE_SCALAR")
                => OperationStep(output_queue[node_index],
                                 get_arity(output_queue[node_index].identifier))
          /\ pc' = "result" => Len(scalars_buffer) = 1]_vars

C16_Witness ==
    /\ pc = "process"
    /\ last_apply.identifier = <<"-">>
    /\ last_apply.operands[1] /= last_apply.operands[2]
    /\ last_apply.cur_result.ok
    /\ scalars_buffer = <<last_apply.cur_result.value>>

----------------------------------------------------------------------------
(* C17 *)

ErrorRaised == answer = NoAnswer /\ answer'.type \in {"error", "exit"}

ReturnedWithPrefix(prefix) ==
    answer'.type = "error" /\ answer'.prefix = prefix

\* C17: an error raised by the tokenizer is returned by eval with the prefix
\* "Error in tokenizer: ", one raised by the postfix builder with "Error in
\* building reverse polish notation: ", and one raised while the postfix
\* sequence is evaluated (an operation's own error included) with "Error in
\* processing reverse polish notation: ".
C17_StagePrefix ==
    [][ErrorRaised =>
          /\ (pc = "tokenize" /\ remaining_expression /= <<>>)
                => ReturnedWithPrefix("Error in tokenizer: ")
          /\ pc = "build"
                => ReturnedWithPrefix(
                      "Error in building reverse polish notation: ")
          /\ pc = "process"
                => ReturnedWithPrefix(
                      "Error in processing reverse polish notation: ")]_vars

----------------------------------------------------------------------------
(* C18 *)

InvalidArity == "Invalid number of parameters for "

NonConstantArgument == "Can't use ... on polynomials of degree >= 2"

DomainError == "Can't take logarithm a number less than or equal to 0"

\* what apply of a built-in function does; rejected tells whether log
\* refuses its constant argument
FunctionRule(rejected) ==
    last_apply.identifier \in FunctionIdentifiers
    => LET id == last_apply.identifier
           args == last_apply.operands
           r == last_apply.cur_result
       IN  IF Len(args) /= get_arity(id)
           THEN ~r.ok /\ r.error = InvalidArity /\ r.id = id
           ELSE IF \E i \in 1..Len(args) : Len(args[i]) >= 2
           THEN ~r.ok /\ r.error = NonConstantArgument /\ r.id = id
           ELSE IF id = Str_log /\ rejected
           THEN ~r.ok /\ r.error = DomainError
           ELSE r.ok /\ Len(r.value) = 1

\* C18 as stated: a built-in function applied to a list with a non-constant
\* argument signals NonConstantArgument and computes no result, the arity is
\* tested before that, and log signals DomainError when its constant
\* argument does not exceed 1e-6.
C18_LogNotAboveEps ==
    FunctionRule(~RLess(Eps, last_apply.operands[1][1]))

\* C18: a built-in function applied to a list with a non-constant argument
\* signals NonConstantArgument and computes no result, the arity is tested
\* before that, and log signals DomainError when its constant argument is
\* below 1e-6; an argument of exactly 1e-6 is accepted.
C18_LogBelowEps ==
    FunctionRule(RLess(last_apply.operands[1][1], Eps))

C18_Witness ==
    /\ last_apply.identifier = Str_max
    /\ Len(last_apply.operands) = 2
    /\ Len(last_apply.operands[1]) = 1
    /\ Len(last_apply.operands[2]) = 2
    /\ ~last_apply.cur_result.ok
    /\ last_apply.cur_result.error = NonConstantArgument

----------------------------------------------------------------------------
(* C19 *)

SecondCallEnded == Ended /\ first_answer /= NoAnswer

\* C19: a second evaluation of the same expression on the same Calculator
\* ends with the answer the first one returned.
C19_SameAnswerTwice == SecondCallEnded => answer = first_answer

----------------------------------------------------------------------------
(* C20 *)

\* the number of "=" characters of the expression
TextEquals == Cardinality({i \in 1..Len(expression) : expression[i] = EQUAL_SIGN})

Tokenized == remaining_expression = <<>>

ErrorIs(prefix, messages) ==
    /\ pc = "done"
    /\ answer.type = "error"
    /\ answer.prefix = prefix
    /\ answer.error \in messages

\* the stage whose error ended the call
AtTokenizer == pc = "exited" /\ ~Tokenized

AtModeCheck == ErrorIs("", {TooManyEqualsSigns, InconsistentEquationForm})

AtEvaluator ==
    \/ pc = "exited" /\ Tokenized
    \/ pc = "done" /\ answer.type = "error" /\ answer.prefix = ProcessPrefix

AtSolve ==
    /\ pc = "done"
    /\ answer.type = "error"
    /\ answer.prefix = ""
    /\ answer.error \notin {TooManyEqualsSigns, InconsistentEquationForm}

BuilderNotRun == token_index = 1 /\ buffer = <<>> /\ output_queue = <<>>

EvaluatorNotRun ==
    node_index = 1 /\ scalars_buffer = <<>> /\ last_apply = NoApply

SolveNotRun == result = Zero /\ ~oob_read

\* C20: eval reports the first error in the order tokenizer, too many equal
\* signs, inconsistent equation form, builder, evaluator, solve: whatever
\* else is wrong with the input, an input that tokenizes with more than one
\* "=" gives TooManyEqualsSigns, one whose variable and "=" do not go
\* together gives InconsistentEquationForm, one that passes these with
\* unbalanced parentheses gives a builder error; and no stage has run after
\* the stage that signalled.
C20_FirstErrorWins ==
    Ended =>
       /\ AtTokenizer
             => /\ ~is_equation
                /\ BuilderNotRun /\ EvaluatorNotRun /\ SolveNotRun
       /\ (Tokenized /\ TextEquals > 1) => ErrorIs("", {TooManyEqualsSigns})
       /\ (Tokenized /\ TextEquals <= 1
             /\ (VariableTokens(tokens) > 0) /= (TextEquals = 1))
             => ErrorIs("", {InconsistentEquationForm})
       /\ AtModeCheck
             => /\ Tokenized /\ ~is_equation
                /\ BuilderNotRun /\ EvaluatorNotRun /\ SolveNotRun
       /\ (Tokenized /\ ~AtModeCheck /\ ~Balanced(tokens)) => BuildFailed
       /\ BuildFailed => EvaluatorNotRun /\ SolveNotRun
       /\ AtEvaluator => SolveNotRun
       /\ AtSolve
             => /\ node_index = Len(output_queue) + 1
                /\ scalars_buffer = <<result>>

C20_Witness ==
    /\ ErrorIs("", {InconsistentEquationForm})
    /\ VariableTokens(tokens) > 0
    /\ TextEquals = 0
    /\ TokenDepth(tokens, Len(tokens)) > 0

----------------------------------------------------------------------------
(* C21 *)

LeftParens(buf) ==
    {k \in 1..Len(buf) : buf[k].token_type = "TOKEN_LEFT_PARANTHESES"}

Registered(token) ==
    \/ token.token_type = "TOKEN_OPERATOR"
          /\ token.identifier \in OperatorIdentifiers
    \/ token.token_type = "TOKEN_FUNCTION"
          /\ token.identifier \in FunctionIdentifiers

\* the operation nodes of the tokens toks, the last token first
EmittedTopFirst(toks) ==
    [i \in 1..Len(toks) |-> FunctionNode(toks[Len(toks) + 1 - i].identifier)]

\* the builder's step at a right parenthesis whose nearest left parenthesis
\* is at position k of the pending stack
RightParenStep(k) ==
    LET above == SubSeq(buffer, k + 1, Len(buffer))
        call == k > 1 /\ buffer[k - 1].token_type = "TOKEN_FUNCTION"
        emitted == IF call THEN <<buffer[k - 1]>> \o above ELSE above
    IN  IF \A i \in 1..Len(emitted) : Registered(emitted[i])
        THEN /\ pc' = "build"
             /\ token_index' = token_index + 1
             /\ buffer' = SubSeq(buffer, 1, IF call THEN k - 2 ELSE k - 1)
             /\ output_queue' = output_queue \o EmittedTopFirst(emitted)
        ELSE pc' = "done" /\ answer'.prefix = BuildPrefix

AtRightParen ==
    /\ pc = "build"
    /\ token_index <= Len(tokens)
    /\ tokens[token_index].token_type = "TOKEN_RIGHT_PARANTHESES"

\* C21: at a right parenthesis the builder pops and emits the pending tokens
\* down to the nearest left parenthesis, discards it, and emits a function
\* that is then on top in the same step; the function's node is the last of
\* the output after the step and what was pending below stays on the stack.
C21_RightParenPops ==
    [][AtRightParen =>
          IF LeftParens(buffer) = {}
          THEN pc' = "done" /\ answer'.prefix = BuildPrefix
          ELSE RightParenStep(LastOf(LeftParens(buffer)))]_vars

C21_Witness ==
    /\ pc = "build"
    /\ token_index > 1
    /\ tokens[token_index - 1].token_type = "TOKEN_RIGHT_PARANTHESES"
    /\ Len(buffer) = 1
    /\ buffer[1].token_type = "TOKEN_OPERATOR"
    /\ Len(output_queue) > 2
    /\ output_queue[Len(output_queue)] = FunctionNode(Str_sin)
    /\ output_queue[Len(output_queue) - 1].type = "NODE_SCALAR"

----------------------------------------------------------------------------
(* C22 *)

\* the length of the maximal run of letters at the head of e
LetterRun(e) ==
    CHOOSE n \in 1..Len(e) :
        /\ \A i \in 1..n : isalpha(e[i])
        /\ n = Len(e) \/ ~isalpha(e[n + 1])

ReadsVariable(e) ==
    e[1] = VARIABLE_X /\ ~(Len(e) > 2 /\ isalpha(e[2]))

EndsFunctionName(c) == c \in {LEFT_PARANTHESES, " ", "\t"}

AtLetter ==
    /\ pc = "tokenize"
    /\ remaining_expression /= <<>>
    /\ isalpha(remaining_expression[1])

\* C22: at a leading x the tokenizer produces the one-character Variable
\* token exactly when it is not the case that more than two characters
\* remain and the next one is a letter; otherwise, and at any other leading
\* letter, it takes the maximal run of letters as one Function token, and
\* signals InvalidFunctionName when the run is ended by a character other
\* than "(", space or tab (a run up to the end of the input is accepted).
C22_VariableOrFunction ==
    [][AtLetter =>
          LET e == remaining_expression
              n == LetterRun(e)
          IN  IF ReadsVariable(e)
              THEN /\ tokens' = Append(tokens, Token(<<VARIABLE_X>>,
                                                     "TOKEN_VARIABLE"))
                   /\ remaining_expression' = Tail(e)
              ELSE IF n = Len(e) \/ EndsFunctionName(e[n + 1])
              THEN /\ tokens' = Append(tokens, Token(SubSeq(e, 1, n),
                                                     "TOKEN_FUNCTION"))
                   /\ remaining_expression' = SubSeq(e, n + 1, Len(e))
              ELSE /\ pc' = "exited"
                   /\ answer'.error = "Invalid function definition"
                   /\ tokens' = tokens]_vars

C22_Witness ==
    /\ pc = "tokenize"
    /\ Len(tokens) = 1
    /\ tokens[1].token_type = "TOKEN_FUNCTION"
    /\ Len(tokens[1].identifier) >= 2
    /\ tokens[1].identifier[1] = VARIABLE_X
    /\ remaining_expression /= <<>>

----------------------------------------------------------------------------
(* C23 *)

IsValueToken(t) == t.token_type \in {"TOKEN_NUMBER", "TOKEN_VARIABLE"}

IsOperationToken(t) == t.token_type \in {"TOKEN_OPERATOR", "TOKEN_FUNCTION"}

IsValueNode(n) == n.type = "NODE_SCALAR"

Identifiers(s) == [i \in 1..Len(s) |-> s[i].identifier]

ValueTokenIds(toks) == Identifiers(SelectSeq(toks, IsValueToken))

ValueNodeIds(nodes) == Identifiers(SelectSeq(nodes, IsValueNode))

OperationTokenCount(toks, id) ==
    Cardinality({i \in 1..Len(toks) :
                    IsOperationToken(toks[i]) /\ toks[i].identifier = id})

OperationNodeCount(nodes, id) ==
    Cardinality({i \in 1..Len(nodes) :
                    ~IsValueNode(nodes[i]) /\ nodes[i].identifier = id})

IdentifiersIn(toks, nodes) ==
    {toks[i].identifier : i \in 1..Len(toks)}
    \cup {nodes[i].identifier : i \in 1..Len(nodes)}

\* C23: when the build has succeeded the value nodes of the output are, in
\* order and one for one, the Number and Variable tokens of the builder's
\* input, and for every identifier the output has as many operation nodes
\* as the input has Operator and Function tokens of that identifier; while
\* the build runs the same holds of the tokens handled so far, the pending
\* stack holding the operations not yet emitted.
C23_NodesPreserved ==
    /\ BuildSucceeded
          => /\ ValueNodeIds(output_queue) = ValueTokenIds(tokens)
             /\ \A id \in IdentifiersIn(tokens, output_queue) :
                   OperationNodeCount(output_queue, id)
                      = OperationTokenCount(tokens, id)
    /\ pc = "build"
          => LET handled == SubSeq(tokens, 1, token_index - 1)
             IN  /\ ValueNodeIds(output_queue) = ValueTokenIds(handled)
                 /\ \A id \in IdentifiersIn(handled, output_queue) :
                       OperationNodeCount(output_queue, id)
                          + OperationTokenCount(buffer, id)
                          = OperationTokenCount(handled, id)

C23_Witness ==
    /\ pc = "process"
    /\ node_index = 1
    /\ Len(ValueNodeIds(output_queue)) >= 3
    /\ ValueNodeIds(output_queue)[1] /= ValueNodeIds(output_queue)[2]
    /\ OperationNodeCount(output_queue, Str_max) = 1
    /\ OperationNodeCount(output_queue, <<"+">>) = 1

----------------------------------------------------------------------------
(* C24 *)

ConstantMode == VariableTokens(tokens) = 0

IsConstantValue(p) == Len(p) = 1

\* C24: when the token sequence has no Variable token, every value of the
\* postfix sequence, every value on the evaluator's stack, every operand and
\* result of an applied operation and the final value has one coefficient,
\* and the number eval returns is that coefficient.
C24_ConstantModeValues ==
    ConstantMode =>
       /\ \A i \in 1..Len(output_queue) :
             IsValueNode(output_queue[i])
                => IsConstantValue(output_queue[i].value)
       /\ \A i \in 1..Len(scalars_buffer) : IsConstantValue(scalars_buffer[i])
       /\ last_apply /= NoApply
             => /\ \A i \in 1..Len(last_apply.operands) :
                      IsConstantValue(last_apply.operands[i])
                /\ last_apply.cur_result.ok
                      => IsConstantValue(last_apply.cur_result.value)
       /\ IsConstantValue(result)
       /\ (pc = "done" /\ answer.type = "number")
             => /\ ~is_equation
                /\ result = <<answer.value>>

C24_Witness ==
    /\ ConstantMode
    /\ pc = "done"
    /\ answer.type = "number"
    /\ last_apply.identifier = <<"*">>
    /\ result = last_apply.cur_result.value
    /\ result /= Zero

----------------------------------------------------------------------------
(* C25 *)

PendingTypes == {"TOKEN_OPERATOR", "TOKEN_FUNCTION", "TOKEN_LEFT_PARANTHESES"}

UnknownSymbol ==
    {"Invalid mathematical operator ", "Invalid mathematical function "}

\* the pending tokens that the builder's step at a comma, at a right
\* parenthesis or after the last token pops and hands to
\* FunctionFactory::build whatever their type: those above the nearest left
\* parenthesis, all of them when there is none.  (The operator branch and
\* the function under a left parenthesis test the type before the call.)
ResolvedUntested ==
    LET above == IF LeftParens(buffer) = {} THEN buffer
                 ELSE SubSeq(buffer, LastOf(LeftParens(buffer)) + 1,
                             Len(buffer))
        type == IF token_index <= Len(tokens)
                THEN tokens[token_index].token_type ELSE "end"
    IN  IF type \in {"TOKEN_COMMA", "TOKEN_RIGHT_PARANTHESES", "end"}
        THEN {above[i] : i \in 1..Len(above)} ELSE {}

\* C25: the pending stack of the builder holds only Operator, Function and
\* LeftParen tokens; FunctionFactory::build is called on Operator and
\* Function tokens only, so every node it has put on the output is a
\* descriptor of a registered operation and every error it has raised is
\* UnknownSymbol.
C25_PendingStack ==
    /\ \A i \in 1..Len(buffer) : buffer[i].token_type \in PendingTypes
    /\ pc = "build" => \A t \in ResolvedUntested : IsOperationToken(t)
    /\ \A i \in 1..Len(output_queue) :
          ~IsValueNode(output_queue[i])
             => /\ output_queue[i].type = "NODE_FUNCTION"
                /\ output_queue[i].identifier
                      \in OperatorIdentifiers \cup FunctionIdentifiers
    /\ (BuildFailed /\ answer.id /= NoId) => answer.error \in UnknownSymbol

C25_Witness ==
    /\ pc = "build"
    /\ Len(buffer) = 3
    /\ buffer[1].token_type = "TOKEN_OPERATOR"
    /\ buffer[2].token_type = "TOKEN_FUNCTION"
    /\ buffer[3].token_type = "TOKEN_LEFT_PARANTHESES"
    /\ token_index <= Len(tokens)
    /\ tokens[token_index].token_type = "TOKEN_RIGHT_PARANTHESES"

====
